---- MODULE Spec2Model ----
(***************************************************************************)
(* Model of cargo/flatpak-cargo-generator.py: the conversion of a          *)
(* Cargo.lock into a flatpak-builder source manifest.                      *)
(*                                                                         *)
(* Strings are sequences of tokens.  A token stands for the literal text   *)
(* it spells; the vocabulary is chosen so that every string operation of   *)
(* the program (replace, startswith, endswith, rstrip, lower, split,       *)
(* slicing of commit identifiers) has the same result on the tokens as on  *)
(* the characters: "/" "." "://" "?" "#" "&" "=" "_" "git+" ".git" occur   *)
(* only as tokens of their own, and commit identifiers are spelled one     *)
(* character per token.                                                    *)
(***************************************************************************)
EXTENDS Integers, Sequences, FiniteSets, TLC

\* ------------------------------------------------------------ constants

CRATES_IO == <<"https", "://", "static", ".", "crates", ".", "io", "/", "crates">>
CARGO_HOME == <<"cargo">>
CARGO_CRATES == CARGO_HOME \o <<"/", "vendor">>
VENDORED_SOURCES == <<"vendored-sources">>
COMMIT_LEN == 7

None == "None"

\* ------------------------------------------------------- string helpers

RECURSIVE Concat(_)
Concat(ss) == IF ss = <<>> THEN <<>> ELSE Head(ss) \o Concat(Tail(ss))

Prefix(s, n) == SubSeq(s, 1, IF n < Len(s) THEN n ELSE Len(s))

StartsWith(s, p) == Len(s) >= Len(p) /\ SubSeq(s, 1, Len(p)) = p

EndsWith(s, p) == Len(s) >= Len(p) /\ SubSeq(s, Len(s) - Len(p) + 1, Len(s)) = p

\* Index of the first element of s that is in the set toks, 0 when none.
RECURSIVE FindFrom(_, _, _)
FindFrom(s, toks, i) ==
    IF i > Len(s) THEN 0
    ELSE IF s[i] \in toks THEN i
    ELSE FindFrom(s, toks, i + 1)

Find(s, toks) == FindFrom(s, toks, 1)

\* str.lower() of one token.
LowerTok(t) ==
    CASE t = "O" -> "o"
      [] t = "R" -> "r"
      [] t = "GitHub" -> "github"
      [] t = "HTTPS" -> "https"
      [] OTHER -> t

Lower(s) == [i \in 1..Len(s) |-> LowerTok(s[i])]

\* str.rstrip('/')
RECURSIVE RstripSlash(_)
RstripSlash(s) ==
    IF s # <<>> /\ s[Len(s)] = "/" THEN RstripSlash(SubSeq(s, 1, Len(s) - 1))
    ELSE s

\* str.replace(old, new) for sequences of tokens, leftmost occurrences first.
RECURSIVE Replace(_, _, _)
Replace(s, old, new) ==
    IF s = <<>> THEN <<>>
    ELSE IF StartsWith(s, old)
         THEN new \o Replace(SubSeq(s, Len(old) + 1, Len(s)), old, new)
    ELSE <<Head(s)>> \o Replace(Tail(s), old, new)

\* str.split(sep) for a one-token separator.
RECURSIVE Split(_, _)
Split(s, sep) ==
    LET i == Find(s, {sep})
    IN  IF i = 0 THEN <<s>>
        ELSE <<SubSeq(s, 1, i - 1)>> \o Split(SubSeq(s, i + 1, Len(s)), sep)

\* ------------------------------------------------------- urllib.parse

\* The part of s before the first token in toks (all of s when none).
Before(s, toks) ==
    LET i == Find(s, toks) IN IF i = 0 THEN s ELSE SubSeq(s, 1, i - 1)

\* The part of s after the first token in toks (empty when none).
After(s, toks) ==
    LET i == Find(s, toks) IN IF i = 0 THEN <<>> ELSE SubSeq(s, i + 1, Len(s))

\* The part of s from the first token in toks on (empty when none).
FromFirst(s, toks) ==
    LET i == Find(s, toks) IN IF i = 0 THEN <<>> ELSE SubSeq(s, i, Len(s))

SchemeToks == {"git+", "registry+", "https", "http", "ssh", "HTTPS"}

\* Whether url starts with a scheme followed by '://'.
HasScheme(url) ==
    LET i == Find(url, {"://"})
    IN  i > 1 /\ \A k \in 1..(i - 1) : url[k] \in SchemeToks

\* urlsplit after the scheme and the netloc: the fragment goes first, then
\* the query.
parse_path(scheme, netloc, nofrag, fragment) ==
    [scheme |-> scheme, netloc |-> netloc, path |-> Before(nofrag, {"?"}),
     query |-> After(nofrag, {"?"}), fragment |-> fragment]

parse_tail(scheme, netloc, tail) ==
    parse_path(scheme, netloc, Before(tail, {"#"}), After(tail, {"#"}))

\* urlparse(url): scheme (lower-cased), netloc, path, query, fragment.
urlparse(url) ==
    IF HasScheme(url)
    THEN parse_tail(Lower(Before(url, {"://"})),
                    Before(After(url, {"://"}), {"/", "?", "#"}),
                    FromFirst(After(url, {"://"}), {"/", "?", "#"}))
    ELSE parse_tail(<<>>, <<>>, url)

\* ParseResult.geturl() of a value canonical_url returned.
geturl(u) ==
    (IF u.scheme # <<>> THEN u.scheme \o <<"://">> ELSE <<>>)
    \o u.netloc
    \o (IF u.netloc # <<>> /\ u.path # <<>> /\ u.path[1] # "/" THEN <<"/">> ELSE <<>>)
    \o u.path

\* ParseResult.hostname: the lower-cased host of the netloc.
hostname(u) == Lower(u.netloc)

\* parse_qs(query).get(key): the values given for key, in order; blank
\* values are dropped; <<>> stands for None.
parse_qs_get(query, key) ==
    LET fields == IF query = <<>> THEN <<>> ELSE Split(query, "&")
        Hit(f) == Find(f, {"="}) = 2 /\ f[1] = key /\ After(f, {"="}) # <<>>
        hits == SelectSeq(fields, Hit)
    IN  [i \in 1..Len(hits) |-> After(hits[i], {"="})]

\* -------------------------------------------------------- canonical_url

GITHUB == <<"github", ".", "com">>

GIT_HTTPS == <<"git+", "https", "://">>

\* path[:-len('.git')] when the path ends in '.git'.
strip_git_suffix(path) ==
    IF EndsWith(path, <<".git">>) THEN SubSeq(path, 1, Len(path) - 1) ELSE path

\* canonical_parsed with the '.git' suffix tested before the trailing slashes
\* are stripped.
canonical_parsed_suffix_first(scheme, netloc, path) ==
    [scheme |-> IF netloc = GITHUB THEN <<"https">> ELSE scheme,
     netloc |-> netloc,
     path |-> IF netloc = GITHUB THEN Lower(RstripSlash(strip_git_suffix(path)))
              ELSE RstripSlash(strip_git_suffix(path)),
     params |-> None, query |-> None, fragment |-> None]

\* The value canonical_url builds from the parsed URL.
canonical_parsed(scheme, netloc, path) ==
    [scheme |-> IF netloc = GITHUB THEN <<"https">> ELSE scheme,
     netloc |-> netloc,
     path |-> strip_git_suffix(IF netloc = GITHUB THEN Lower(RstripSlash(path))
                               ELSE RstripSlash(path)),
     params |-> None, query |-> None, fragment |-> None]

canonical_of(p) == canonical_parsed(p.scheme, p.netloc, p.path)

canonical_url(url) == canonical_of(urlparse(Replace(url, GIT_HTTPS, <<"https", "://">>)))

\* --------------------------------------------------- python containers

\* A dict that keeps insertion order: a sequence of <<key, value>> pairs.
DictKeys(d) == {d[i][1] : i \in 1..Len(d)}

DictGet(d, k) == d[CHOOSE i \in 1..Len(d) : d[i][1] = k][2]

\* d[k] = v: an existing key keeps its place and takes the new value.
DictSet(d, k, v) ==
    IF k \in DictKeys(d)
    THEN [i \in 1..Len(d) |-> IF d[i][1] = k THEN <<k, v>> ELSE d[i]]
    ELSE Append(d, <<k, v>>)

\* dict.update(other)
RECURSIVE DictUpdate(_, _)
DictUpdate(d, other) ==
    IF other = <<>> THEN d
    ELSE DictUpdate(DictSet(d, Head(other)[1], Head(other)[2]), Tail(other))

Raise(kind) == [raised |-> TRUE, exc |-> kind]

\* ------------------------------------------------ quoting and dumping

\* urllib.parse.quote of one token ('/' is left alone).
QuoteTok(t) ==
    CASE t = "://" -> "%3A//"
      [] t = "git+" -> "git%2B"
      [] t = "?" -> "%3F"
      [] t = "#" -> "%23"
      [] t = "=" -> "%3D"
      [] t = "&" -> "%26"
      [] t = " = " -> "%20%3D%20"
      [] t = "\"" -> "%22"
      [] t = "{" -> "%7B"
      [] t = ": " -> "%3A%20"
      [] t = ", " -> "%2C%20"
      [] t = ": {}}" -> "%3A%20%7B%7D%7D"
      [] t = ")" -> "%29"
      [] t = "[source." -> "%5Bsource."
      [] t = "]\n" -> "%5D%0A"
      [] t = "\n" -> "%0A"
      [] OTHER -> t

urlquote(s) == [i \in 1..Len(s) |-> QuoteTok(s[i])]

\* json.dumps({'package': checksum, 'files': {}}); <<>> is None.
json_dumps_marker(checksum) ==
    <<"{", "\"", "package", "\"", ": ">>
    \o (IF checksum = <<>> THEN <<"null">> ELSE <<"\"">> \o checksum \o <<"\"">>)
    \o <<", ", "\"", "files", "\"", ": {}}">>

\* The keys a vendored-source table can hold, in the order the program
\* inserts them.
TableKeys == <<"directory", "git", "replace-with", "rev", "tag", "branch">>

RECURSIVE toml_table(_, _)
toml_table(v, i) ==
    IF i > Len(TableKeys) THEN <<>>
    ELSE (IF TableKeys[i] \in DOMAIN v
          THEN <<TableKeys[i], " = ", "\"">> \o v[TableKeys[i]] \o <<"\"", "\n">>
          ELSE <<>>)
         \o toml_table(v, i + 1)

\* The section names toml writes without quotes: [A-Za-z0-9_-]+ only.
BareKeys == {VENDORED_SOURCES, <<"crates-io">>}

\* toml.dumps({'source': cargo_vendored_sources})
RECURSIVE toml_dumps(_)
toml_dumps(d) ==
    IF d = <<>> THEN <<>>
    ELSE <<"[source.">>
         \o (IF Head(d)[1] \in BareKeys THEN Head(d)[1]
             ELSE <<"\"">> \o Head(d)[1] \o <<"\"">>)
         \o <<"]\n">>
         \o toml_table(Head(d)[2], 1) \o <<"\n">> \o toml_dumps(Tail(d))

\* ----------------------------------------- the remote git repositories

\* Full commit identifiers are FullLen characters long (COMMIT_LEN + 1 or
\* more, so that a full identifier is longer than the compared prefix).
FullLen == 8

CommitA == [i \in 1..FullLen |-> "a"]
CommitB == [i \in 1..FullLen |-> "b"]
\* An abbreviated reference to CommitB, shorter than COMMIT_LEN.
ShortB == [i \in 1..(COMMIT_LEN - 1) |-> "b"]

RepoGithub == <<"https", "://", "github", ".", "com", "/", "o", "/", "r">>
RepoGitlab == <<"https", "://", "gitlab", ".", "com", "/", "o", "/", "r">>

\* What 'git clone' finds at a URL: the commits, the commit of the default
\* branch, and per commit the Cargo.toml files of the tree: the root
\* package name (<<>> when the root has no [package]), the workspace
\* members (<<>> when there is no [workspace]) and, per member pattern, the
\* <<directory, package name>> pairs its glob matches.
Remotes ==
    (RepoGithub :>
        [head |-> CommitB,
         tree |-> (CommitA :> [package |-> <<"p">>,
                               members |-> << <<"q">> >>,
                               glob |-> (<<"q">> :> << << <<"q">>, "q" >> >>)])
               @@ (CommitB :> [package |-> <<"p">>,
                               members |-> <<>>,
                               glob |-> <<>>])])
    @@
    (RepoGitlab :>
        [head |-> CommitA,
         tree |-> (CommitA :> [package |-> <<>>,
                               members |-> << <<"crates", "/", "*">> >>,
                               glob |-> (<<"crates", "/", "*">> :>
                                          << << <<"crates", "/", "q">>, "q" >> >>)])])

\* The commits of a remote that a reference names: the commit itself, or
\* the commits it abbreviates.
Resolve(origin, commit) ==
    {c \in DOMAIN Remotes[origin].tree : commit # <<>> /\ Prefix(c, Len(commit)) = commit}

\* What the git processes of one call of fetch_git_repo may do.
GitEnv == {"ok", "clone fails", "fetch fails"}

\* -------------------------------------------------------- get_git_tarball

tarball_of(host, path, commit) ==
    IF Len(path) # 2 THEN Raise("AssertionError")
    ELSE IF host = <<>> THEN Raise("AttributeError")
    ELSE IF host = GITHUB
    THEN [raised |-> FALSE,
          value |-> <<"https", "://", "codeload", ".">> \o host \o <<"/">> \o path[1]
                    \o <<"/">> \o path[2] \o <<"/", "tar.gz", "/">> \o commit]
    ELSE IF Split(host, ".")[1] = <<"gitlab">>
    THEN [raised |-> FALSE,
          value |-> <<"https", "://">> \o host \o <<"/">> \o path[1] \o <<"/">> \o path[2]
                    \o <<"/", "repository", "/", "archive.tar.gz", "?", "ref", "=">>
                    \o commit]
    ELSE IF host = <<"bitbucket", ".", "org">>
    THEN [raised |-> FALSE,
          value |-> <<"https", "://">> \o host \o <<"/">> \o path[1] \o <<"/">> \o path[2]
                    \o <<"/", "get", "/">> \o commit \o <<".tar.gz">>]
    ELSE Raise("ValueError")

\* The owner and the repository of the path, the latter without '.git'.
owner_and_repo(path) ==
    [i \in 1..Len(path) |->
        IF i = 2 /\ EndsWith(path[i], <<".git">>)
        THEN Replace(path[i], <<".git">>, <<>>) ELSE path[i]]

tarball_for(url, commit) ==
    tarball_of(hostname(url), owner_and_repo(Tail(Split(url.path, "/"))), commit)

get_git_tarball(repo_url, commit) == tarball_for(canonical_url(repo_url), commit)

\* get_remote_sha256(url): the digest of what the URL serves.
sha256_of(url) == <<"sha256:">> \o url

\* ---------------------------------------------------------- fetch_git_repo

\* The cache directory of a repository URL.
repo_dir(git_url) ==
    Replace(Replace(git_url, <<"://">>, <<"_">>), <<"/">>, <<"_">>)

\* One git process run by fetch_git_repo, and whether it exited with 0.
GitRun(op, git_url, dir, commit, ok) ==
    [op |-> op, url |-> git_url, dir |-> dir, commit |-> commit, ok |-> ok]

\* 'git fetch origin commit' and 'git checkout commit'; found is what the
\* reference names at the origin of the checkout.
fetch_and_checkout(git_url, dir, commit, cache, env, ran, found) ==
    IF ~(Cardinality(found) = 1 /\ env # "fetch fails")
    THEN [raised |-> TRUE, cache |-> cache, dir |-> dir,
          git |-> Append(ran, GitRun("fetch", git_url, dir, commit, FALSE))]
    ELSE [raised |-> FALSE, dir |-> dir,
          cache |-> [cache EXCEPT ![dir].head = CHOOSE c \in found : TRUE],
          git |-> ran \o <<GitRun("fetch", git_url, dir, commit, TRUE),
                           GitRun("checkout", git_url, dir, commit, TRUE)>>]

\* needs_switch without the comparison: every call fetches and checks out.
needs_switch_always(head, commit) == TRUE

\* The head of the checkout is compared with the commit on COMMIT_LEN
\* characters.
needs_switch(head, commit) == Prefix(head, COMMIT_LEN) # Prefix(commit, COMMIT_LEN)

\* fetch_git_repo once the checkout exists.
switch_commit(git_url, dir, commit, cache, env, ran) ==
    IF needs_switch(cache[dir].head, commit)
    THEN fetch_and_checkout(git_url, dir, commit, cache, env, ran,
                            Resolve(cache[dir].origin, commit))
    ELSE [raised |-> FALSE, cache |-> cache, git |-> ran, dir |-> dir]

clone_or_reuse(git_url, dir, commit, cache, env) ==
    IF dir \in DOMAIN cache
    THEN switch_commit(git_url, dir, commit, cache, env, <<>>)
    ELSE IF git_url \in DOMAIN Remotes /\ env # "clone fails"
    THEN switch_commit(git_url, dir, commit,
                       cache @@ (dir :> [origin |-> git_url,
                                         head |-> Remotes[git_url].head]),
                       env, <<GitRun("clone", git_url, dir, <<>>, TRUE)>>)
    ELSE [raised |-> TRUE, cache |-> cache, dir |-> dir,
          git |-> <<GitRun("clone", git_url, dir, <<>>, FALSE)>>]

\* fetch_git_repo(git_url, commit) on the cache, a function from directory
\* to [origin, head].  Returns the new cache, the git processes run (with
\* their success) and whether the call raised.
fetch_git_repo(git_url, commit, cache, env) ==
    clone_or_reuse(git_url, repo_dir(git_url), commit, cache, env)

\* ------------------------------------------------- get_git_cargo_packages

\* The packages dict built from the Cargo.toml files of a checked-out tree.
RECURSIVE glob_packages(_, _)
glob_packages(packages, matches) ==
    IF matches = <<>> THEN packages
    ELSE glob_packages(DictSet(packages, Head(matches)[2], Head(matches)[1]),
                       Tail(matches))

RECURSIVE member_packages(_, _, _)
member_packages(packages, members, tree) ==
    IF members = <<>> THEN packages
    ELSE member_packages(glob_packages(packages, tree.glob[Head(members)]),
                         Tail(members), tree)

tree_packages(f, tree) ==
    IF tree.package = <<>> /\ tree.members = <<>>
    THEN [raised |-> TRUE, exc |-> "AssertionError", cache |-> f.cache, git |-> f.git]
    ELSE [raised |-> FALSE, cache |-> f.cache, git |-> f.git,
          packages |-> member_packages(
              IF tree.package # <<>> THEN << <<tree.package[1], <<".">> >> >> ELSE <<>>,
              tree.members, tree)]

read_packages(f) ==
    IF f.raised
    THEN [raised |-> TRUE, exc |-> "CalledProcessError", cache |-> f.cache, git |-> f.git]
    ELSE tree_packages(f, Remotes[f.cache[f.dir].origin].tree[f.cache[f.dir].head])

get_git_cargo_packages(git_url, commit, cache, env) ==
    read_packages(fetch_git_repo(git_url, commit, cache, env))

\* --------------------------------------------------------- get_git_sources

\* select_revision looking at the tag before the rev.
select_revision_tag_first(rev, tag, branch) ==
    IF tag # <<>>
    THEN IF Len(tag) = 1 THEN [raised |-> FALSE, value |-> ("tag" :> tag[1])]
         ELSE Raise("AssertionError")
    ELSE IF rev # <<>>
    THEN IF Len(rev) = 1 THEN [raised |-> FALSE, value |-> ("rev" :> rev[1])]
         ELSE Raise("AssertionError")
    ELSE IF branch # <<>>
    THEN IF Len(branch) = 1 THEN [raised |-> FALSE, value |-> ("branch" :> branch[1])]
         ELSE Raise("AssertionError")
    ELSE [raised |-> FALSE, value |-> <<>>]

\* The revision selector of the redirect entry: the first of rev, tag and
\* branch the query gives; a selector given more than once fails the assert.
select_revision(rev, tag, branch) ==
    IF rev # <<>>
    THEN IF Len(rev) = 1 THEN [raised |-> FALSE, value |-> ("rev" :> rev[1])]
         ELSE Raise("AssertionError")
    ELSE IF tag # <<>>
    THEN IF Len(tag) = 1 THEN [raised |-> FALSE, value |-> ("tag" :> tag[1])]
         ELSE Raise("AssertionError")
    ELSE IF branch # <<>>
    THEN IF Len(branch) = 1 THEN [raised |-> FALSE, value |-> ("branch" :> branch[1])]
         ELSE Raise("AssertionError")
    ELSE [raised |-> FALSE, value |-> <<>>]

revision_selector(query) ==
    select_revision(parse_qs_get(query, "rev"), parse_qs_get(query, "tag"),
                    parse_qs_get(query, "branch"))

vendored_entry(repo_url, selector) ==
    << <<repo_url,
         ("git" :> repo_url) @@ ("replace-with" :> VENDORED_SOURCES) @@ selector>> >>

begin_entry(commit, repo_url, selector, tar) ==
    IF tar.raised THEN tar
    ELSE [raised |-> FALSE, commit |-> commit, repo_url |-> repo_url,
          entry |-> vendored_entry(repo_url, selector), tarball_url |-> tar.value]

begin_selected(source, tarball, commit, sel) ==
    IF sel.raised THEN sel
    ELSE begin_entry(commit, geturl(canonical_url(source)), sel.value,
                     IF tarball THEN get_git_tarball(source, commit)
                     ELSE [raised |-> FALSE, value |-> <<>>])

begin_parsed(source, tarball, u) ==
    IF u.fragment = <<>> THEN Raise("AssertionError")
    ELSE begin_selected(source, tarball, u.fragment, revision_selector(u.query))

\* get_git_sources up to its first await: the commit, the repository URL,
\* the redirect entry and, in tarball mode, the tarball URL.
git_sources_begin(package, tarball) ==
    begin_parsed(package.source, tarball, urlparse(package.source))

archive_source(name, tarball_url, digest) ==
    ("type" :> "archive") @@ ("archive-type" :> "tar-gzip") @@ ("url" :> tarball_url)
    @@ ("sha256" :> digest) @@ ("dest" :> CARGO_CRATES \o <<"/", name>>)

git_source(name, repo_url, commit) ==
    ("type" :> "git") @@ ("url" :> repo_url) @@ ("commit" :> commit)
    @@ ("dest" :> CARGO_CRATES \o <<"/", name>>)

relocate_commands(crate, pkg_subpath) ==
    << <<"mv ">> \o crate \o <<" ">> \o crate \o <<".repo">>,
       <<"mv ">> \o crate \o <<".repo", "/">> \o pkg_subpath \o <<" ">> \o crate,
       <<"rm -rf ">> \o crate \o <<".repo">> >>

relocate_source(name, pkg_subpath) ==
    ("type" :> "shell")
    @@ ("commands" :> relocate_commands(CARGO_CRATES \o <<"/", name>>, pkg_subpath))

marker_source(dest, checksum) ==
    ("type" :> "file")
    @@ ("url" :> <<"data:">> \o urlquote(json_dumps_marker(checksum)))
    @@ ("dest" :> dest) @@ ("dest-filename" :> <<".cargo-checksum.json">>)

\* The relocation step of a package that is not at the root of its
\* repository.
relocation_for(name, pkg_subpath) ==
    IF pkg_subpath # <<".">> THEN <<relocate_source(name, pkg_subpath)>> ELSE <<>>

\* place_relocation with the relocation step appended last.
place_relocation_last(fetch, relocation, marker) == fetch \o marker \o relocation

\* Where the relocation step goes among the descriptors of a package.
place_relocation(fetch, relocation, marker) == fetch \o relocation \o marker

finish_found(name, fetch, entry, g) ==
    IF g.raised THEN g
    ELSE IF name \notin DictKeys(g.packages)
    THEN [raised |-> TRUE, exc |-> "KeyError", cache |-> g.cache, git |-> g.git]
    ELSE [raised |-> FALSE, cache |-> g.cache, git |-> g.git,
          value |-> [sources |-> place_relocation(
                                    fetch,
                                    relocation_for(name, DictGet(g.packages, name)),
                                    <<marker_source(CARGO_CRATES \o <<"/", name>>, <<>>)>>),
                     entry |-> entry]]

fetch_source(name, tarball, begun) ==
    IF tarball
    THEN archive_source(name, begun.tarball_url, sha256_of(begun.tarball_url))
    ELSE git_source(name, begun.repo_url, begun.commit)

\* get_git_sources from the end of its first await.
git_sources_finish(package, tarball, begun, cache, env) ==
    finish_found(package.name, <<fetch_source(package.name, tarball, begun)>>,
                 begun.entry,
                 get_git_cargo_packages(begun.repo_url, begun.commit, cache, env))

\* ----------------------------------------------------- get_package_sources

checksum_key(name, version, source) ==
    <<"checksum ", name, " ", version, " (">> \o source \o <<")">>

\* checksum_for with the inline field first.
checksum_for_inline_first(key, package, lock) ==
    IF "checksum" \in DOMAIN package THEN <<package.checksum>>
    ELSE IF "metadata" \in DOMAIN lock /\ key \in DOMAIN lock.metadata
    THEN <<lock.metadata[key]>>
    ELSE <<>>

\* The checksum for a key: the [metadata] table first, the inline field
\* second; <<checksum>>, or <<>> when the lockfile gives none.
checksum_for(key, package, lock) ==
    IF "metadata" \in DOMAIN lock /\ key \in DOMAIN lock.metadata
    THEN <<lock.metadata[key]>>
    ELSE IF "checksum" \in DOMAIN package THEN <<package.checksum>>
    ELSE <<>>

registry_checksum(package, lock) ==
    checksum_for(checksum_key(package.name, package.version, package.source),
                 package, lock)

crate_sources(name, version, checksum) ==
    << ("type" :> "file")
       @@ ("url" :> CRATES_IO \o <<"/", name, "/", name, "-", version, ".crate">>)
       @@ ("sha256" :> checksum) @@ ("dest" :> CARGO_CRATES)
       @@ ("dest-filename" :> <<name, "-", version, ".crate">>),
       marker_source(CARGO_CRATES \o <<"/", name, "-", version>>, checksum) >>

CRATES_IO_ENTRY == << << <<"crates-io">>, ("replace-with" :> VENDORED_SOURCES)>> >>

IsGit(package) == "source" \in DOMAIN package /\ StartsWith(package.source, <<"git+">>)

\* A task's state: where it stands, and what it returned (<<>> is None).
Task(pc, ret, exc) == [pc |-> pc, ret |-> ret, exc |-> exc]

\* What one step of a task did: the task's new state, the cache, the git
\* processes run, the warnings logged and the downloads started.
Step(task, cache, git, warn, sha) ==
    [task |-> task, cache |-> cache, git |-> git, warn |-> warn, sha |-> sha]

\* The task when get_git_sources has ended.
finished(done) ==
    Step(IF done.raised THEN Task("raised", <<>>, done.exc)
         ELSE Task("returned", <<done.value>>, None),
         done.cache, done.git, <<>>, <<>>)

\* registry_step raising when there is no checksum.
registry_step_strict(package, cache, checksum) ==
    IF checksum = <<>>
    THEN Step(Task("raised", <<>>, "KeyError"), cache, <<>>, <<>>, <<>>)
    ELSE Step(Task("returned",
                   <<[sources |-> crate_sources(package.name, package.version,
                                                checksum[1]),
                      entry |-> CRATES_IO_ENTRY]>>,
                   None),
              cache, <<>>, <<>>, <<>>)

\* A package without checksum is skipped with a warning.
registry_step(package, cache, checksum) ==
    IF checksum = <<>>
    THEN Step(Task("returned", <<>>, None), cache, <<>>, <<"doesn't have checksum">>, <<>>)
    ELSE Step(Task("returned",
                   <<[sources |-> crate_sources(package.name, package.version,
                                                checksum[1]),
                      entry |-> CRATES_IO_ENTRY]>>,
                   None),
              cache, <<>>, <<>>, <<>>)

git_step(package, tarballs, cache, env, begun) ==
    IF begun.raised
    THEN Step(Task("raised", <<>>, begun.exc), cache, <<>>, <<>>, <<>>)
    ELSE IF tarballs
    THEN Step(Task("sha256", <<>>, None), cache, <<>>, <<>>, <<begun.tarball_url>>)
    ELSE finished(git_sources_finish(package, tarballs, begun, cache, env))

\* get_package_sources from its start to its first await, its return or
\* its raise.
get_package_sources(package, lock, tarballs, cache, env) ==
    IF "source" \notin DOMAIN package
    THEN Step(Task("returned", <<>>, None), cache, <<>>, <<"has no source">>, <<>>)
    ELSE IF IsGit(package)
    THEN git_step(package, tarballs, cache, env, git_sources_begin(package, tarballs))
    ELSE registry_step(package, cache, registry_checksum(package, lock))

\* get_package_sources resumed when the download of the tarball ends.
get_package_sources_resume(package, tarballs, cache, env) ==
    IF env = "download fails"
    THEN Step(Task("raised", <<>>, "ClientError"), cache, <<>>, <<>>, <<>>)
    ELSE finished(git_sources_finish(package, tarballs,
                                     git_sources_begin(package, tarballs), cache, env))

\* ---------------------------------------------------------- generate_sources

extract_source ==
    ("type" :> "shell") @@ ("dest" :> CARGO_CRATES)
    @@ ("commands" :> << <<"for c in *.crate; do tar -xf $c; done">> >>)

config_source(vendored) ==
    ("type" :> "file")
    @@ ("url" :> <<"data:">> \o urlquote(toml_dumps(vendored)))
    @@ ("dest" :> CARGO_HOME) @@ ("dest-filename" :> <<"config">>)

\* merge_one where a key that is already in the dict keeps its value.
merge_one_keep_first(acc, ret) ==
    IF ret = <<>> THEN acc
    ELSE [sources |-> acc.sources \o ret[1].sources,
          vendored |-> IF ret[1].entry[1][1] \in DictKeys(acc.vendored)
                       THEN acc.vendored
                       ELSE DictUpdate(acc.vendored, ret[1].entry)]

\* One round of the loop over the gathered results.
merge_one(acc, ret) ==
    IF ret = <<>> THEN acc
    ELSE [sources |-> acc.sources \o ret[1].sources,
          vendored |-> DictUpdate(acc.vendored, ret[1].entry)]

\* The loop over the results of asyncio.gather, in the order of the tasks.
RECURSIVE merge_results(_, _, _)
merge_results(acc, results, i) ==
    IF i > Len(results) THEN acc
    ELSE merge_results(merge_one(acc, results[i].ret), results, i + 1)

\* trailing_sources with the configuration file before the extraction.
trailing_sources_swapped(vendored) == <<config_source(vendored), extract_source>>

\* The two entries generate_sources appends after the loop.
trailing_sources(vendored) == <<extract_source, config_source(vendored)>>

\* What generate_sources returns for the merged results.
with_trailing(merged) == merged.sources \o trailing_sources(merged.vendored)

\* ------------------------------------------------- state of the model

VARIABLES
    cargo_lock,     \* main: the parsed lockfile
    git_tarballs,   \* main: args.git_tarballs
    main_pc,        \* main: "start", "gather", "returned", "written", "aborted"
    tasks,          \* asyncio.gather: the state of the task of each package
    cache,          \* the checkouts under the cache directory
    git_runs,       \* the git processes run so far, in order
    downloads,      \* the URLs get_remote_sha256 was called with, per task
    warnings,       \* the warnings logged, per task
    sources,        \* generate_sources: its local list
    cargo_vendored_sources, \* generate_sources: its local dict
    generated_sources,      \* main: <<what generate_sources returned>>
    outfile,        \* the output file: <<>> until written, then <<its content>>
    u_in,       \* canonical_url: the source string under test
    v_in,       \* canonical_url: a capitalisation / trailing-slash variant of it
    canon_u,    \* <<canonical_url(u_in)>> once computed
    canon_v,    \* <<canonical_url(v_in)>> once computed
    canon_cu    \* <<canonical_url(canonical_url(u_in).geturl())>> once computed

canon_vars == <<u_in, v_in, canon_u, canon_v, canon_cu>>

run_vars == <<cargo_lock, git_tarballs, main_pc, tasks, cache, git_runs, downloads,
              warnings, sources, cargo_vendored_sources, generated_sources, outfile>>

vars == <<run_vars, canon_vars>>

\* ------------------------------------------------------------ lockfiles

MaxPackages == 2

REGISTRY == <<"registry+", "https", "://", "github", ".", "com", "/", "rust-lang", "/",
              "crates.io-index">>

GitSource(host, path, query, fragment) ==
    <<"git+", "https", "://">> \o host \o path \o query \o fragment

Rev(v) == <<"rev", "=", v>>
TagSel(v) == <<"tag", "=", v>>
Branch(v) == <<"branch", "=", v>>

GITLAB == <<"gitlab", ".", "com">>

Packages ==
    { [name |-> "n", version |-> "1"],
      [name |-> "a", version |-> "1", source |-> REGISTRY],
      [name |-> "a", version |-> "1", source |-> REGISTRY, checksum |-> <<"k1">>],
      [name |-> "p", version |-> "1",
       source |-> GitSource(GITHUB, <<"/", "o", "/", "r">>,
                            <<"?">> \o Rev("r1"), <<"#">> \o CommitA)],
      [name |-> "q", version |-> "1",
       source |-> GitSource(GITHUB, <<"/", "O", "/", "R", ".git">>,
                            <<"?">> \o TagSel("t1"), <<"#">> \o CommitA)],
      [name |-> "p", version |-> "2",
       source |-> GitSource(GITHUB, <<"/", "o", "/", "r", "/">>,
                            <<"?">> \o Branch("b1"), <<"#">> \o CommitB)],
      [name |-> "p", version |-> "3",
       source |-> GitSource(GITHUB, <<"/", "o", "/", "r">>,
                            <<"?">> \o Rev("r1") \o <<"&">> \o TagSel("t1"),
                            <<"#">> \o CommitA)],
      [name |-> "p", version |-> "4",
       source |-> GitSource(GITHUB, <<"/", "o", "/", "r">>,
                            <<"?">> \o Rev("r1") \o <<"&">> \o Rev("r2"),
                            <<"#">> \o CommitA)],
      [name |-> "p", version |-> "5",
       source |-> GitSource(GITHUB, <<"/", "o", "/", "r">>, <<>>, <<>>)],
      [name |-> "p", version |-> "6",
       source |-> GitSource(<<"example", ".", "org">>, <<"/", "o", "/", "r">>,
                            <<>>, <<"#">> \o CommitA)],
      [name |-> "z", version |-> "1",
       source |-> GitSource(GITHUB, <<"/", "o", "/", "r">>, <<>>, <<"#">> \o CommitA)],
      [name |-> "q", version |-> "2",
       source |-> GitSource(GITLAB, <<"/", "o", "/", "r">>, <<>>, <<"#">> \o CommitA)],
      [name |-> "p", version |-> "7",
       source |-> GitSource(GITHUB, <<"/", "o", "/", "r">>, <<>>, <<"#">> \o ShortB)],
      [name |-> "p", version |-> "8",
       source |-> GitSource(GITHUB, <<"/", "o", "_", "r">>, <<>>, <<"#">> \o CommitA)] }

RECURSIVE SeqsOfLen(_, _)
SeqsOfLen(S, n) ==
    IF n = 0 THEN {<<>>}
    ELSE {Append(q, x) : q \in SeqsOfLen(S, n - 1), x \in S}

PackageLists == UNION {SeqsOfLen(Packages, n) : n \in 0..MaxPackages}

HasRegistryPackage(ps) ==
    \E i \in 1..Len(ps) : "source" \in DOMAIN ps[i] /\ ps[i].source = REGISTRY

\* The legacy [metadata] table: absent, without the key of package a, or
\* with it.  Only the registry packages are looked up in it, so the
\* lockfiles without one come without the table.
Lockfiles ==
    {[package |-> ps] : ps \in PackageLists}
    \cup {[package |-> ps, metadata |-> m] :
            ps \in {x \in PackageLists : HasRegistryPackage(x)},
            m \in {(checksum_key("b", "1", REGISTRY) :> <<"k3">>),
                   (checksum_key("a", "1", REGISTRY) :> <<"k2">>)}}

\* ------------------------------------------------------------- the run

NoTasks == <<>>

Init ==
    /\ cargo_lock \in Lockfiles
    /\ git_tarballs \in BOOLEAN
    /\ main_pc = "start"
    /\ tasks = NoTasks
    /\ cache = <<>>
    /\ git_runs = <<>>
    /\ downloads = <<>>
    /\ warnings = <<>>
    /\ sources = <<>>
    /\ cargo_vendored_sources = <<>>
    /\ generated_sources = <<>>
    /\ outfile = <<>>
    /\ u_in = <<>>
    /\ v_in = <<>>
    /\ canon_u = <<>>
    /\ canon_v = <<>>
    /\ canon_cu = <<>>

N == Len(cargo_lock.package)

\* generate_sources up to the await of asyncio.gather: the locals are set
\* and one task per package is created.
generate_sources_begin ==
    /\ main_pc = "start"
    /\ main_pc' = "gather"
    /\ sources' = <<>>
    /\ cargo_vendored_sources' =
         << <<VENDORED_SOURCES, ("directory" :> CARGO_CRATES)>> >>
    /\ tasks' = [i \in 1..N |-> Task("ready", <<>>, None)]
    /\ UNCHANGED <<cargo_lock, git_tarballs, cache, git_runs, downloads, warnings,
                   generated_sources, outfile, canon_vars>>

\* The event loop runs the first step of each task in the order the tasks
\* were created.
NextToStart(i) ==
    /\ tasks[i].pc = "ready"
    /\ \A j \in 1..(i - 1) : tasks[j].pc # "ready"

Tagged(i, xs) == [k \in 1..Len(xs) |-> <<i, xs[k]>>]

\* The effect of one step of task i.
apply_step(i, r) ==
    /\ tasks' = [tasks EXCEPT ![i] = r.task]
    /\ cache' = r.cache
    /\ git_runs' = git_runs \o r.git
    /\ downloads' = downloads \o Tagged(i, r.sha)
    /\ warnings' = warnings \o Tagged(i, r.warn)

task_first_step(i) ==
    /\ main_pc = "gather"
    /\ NextToStart(i)
    /\ \E env \in GitEnv :
         apply_step(i, get_package_sources(cargo_lock.package[i], cargo_lock,
                                           git_tarballs, cache, env))
    /\ UNCHANGED <<cargo_lock, git_tarballs, main_pc, sources, cargo_vendored_sources,
                   generated_sources, outfile, canon_vars>>

\* A task waiting for its download is resumed, in any order.
task_resume(i) ==
    /\ main_pc = "gather"
    /\ tasks[i].pc = "sha256"
    /\ \E env \in GitEnv \cup {"download fails"} :
         apply_step(i, get_package_sources_resume(cargo_lock.package[i], git_tarballs,
                                                  cache, env))
    /\ UNCHANGED <<cargo_lock, git_tarballs, main_pc, sources, cargo_vendored_sources,
                   generated_sources, outfile, canon_vars>>

\* The values of the locals of generate_sources when it returns.
return_sources(merged) ==
    /\ sources' = with_trailing(merged)
    /\ cargo_vendored_sources' = merged.vendored
    /\ generated_sources' = <<with_trailing(merged)>>

\* generate_sources_finish when asyncio.gather hands back the exceptions of
\* the tasks among the results and the loop skips them.
generate_sources_finish_partial ==
    /\ main_pc = "gather"
    /\ \A i \in 1..N : tasks[i].pc \in {"returned", "raised"}
    /\ return_sources(merge_results([sources |-> sources,
                                     vendored |-> cargo_vendored_sources], tasks, 1))
    /\ main_pc' = "returned"
    /\ UNCHANGED <<cargo_lock, git_tarballs, tasks, cache, git_runs, downloads, warnings,
                   outfile, canon_vars>>

\* asyncio.gather returns once every task has returned; generate_sources
\* merges the results, appends its two entries and returns.
generate_sources_finish ==
    /\ main_pc = "gather"
    /\ \A i \in 1..N : tasks[i].pc = "returned"
    /\ return_sources(merge_results([sources |-> sources,
                                     vendored |-> cargo_vendored_sources], tasks, 1))
    /\ main_pc' = "returned"
    /\ UNCHANGED <<cargo_lock, git_tarballs, tasks, cache, git_runs, downloads, warnings,
                   outfile, canon_vars>>

\* The first exception of a task ends asyncio.gather, generate_sources and
\* asyncio.run: the tasks still waiting are cancelled and main exits.  The
\* first steps of all tasks were queued before the exception was delivered.
generate_sources_raise ==
    /\ main_pc = "gather"
    /\ \E i \in 1..N : tasks[i].pc = "raised"
    /\ \A i \in 1..N : tasks[i].pc # "ready"
    /\ main_pc' = "aborted"
    /\ tasks' = [i \in 1..N |-> IF tasks[i].pc = "sha256"
                                THEN Task("cancelled", <<>>, "CancelledError")
                                ELSE tasks[i]]
    /\ UNCHANGED <<cargo_lock, git_tarballs, cache, git_runs, downloads, warnings,
                   sources, cargo_vendored_sources, generated_sources, outfile,
                   canon_vars>>

\* json.dump(value, out, indent=4, sort_keys=False): the text of the file
\* holds the value with its keys in their order.
json_dump(value) == [indent |-> 4, sort_keys |-> FALSE, value |-> value]

\* main writes the output file.
write_outfile ==
    /\ main_pc = "returned"
    /\ main_pc' = "written"
    /\ outfile' = <<json_dump(generated_sources[1])>>
    /\ UNCHANGED <<cargo_lock, git_tarballs, tasks, cache, git_runs, downloads, warnings,
                   sources, cargo_vendored_sources, generated_sources, canon_vars>>

Next ==
    \/ generate_sources_begin
    \/ \E i \in 1..N : task_first_step(i)
    \/ \E i \in 1..N : task_resume(i)
    \/ generate_sources_finish
    \/ generate_sources_raise
    \/ write_outfile

Spec == Init /\ [][Next]_vars

\* ------------------------------------------------- claims on the run

Started == main_pc # "start"

PackageOf(i) == cargo_lock.package[i]

\* The sources of the packages of the lockfiles, parsed and canonicalised.
PoolSources == {p.source : p \in {x \in Packages : "source" \in DOMAIN x}}

ParsedSource == [s \in PoolSources |-> urlparse(s)]

CanonicalSource == [s \in PoolSources |-> geturl(canonical_url(s))]

HasCommit(p) == IsGit(p) /\ ParsedSource[p.source].fragment # <<>>

CommitOf(p) == ParsedSource[p.source].fragment

RepoUrlOf(p) == CanonicalSource[p.source]

SelectorsOf(p, key) == parse_qs_get(ParsedSource[p.source].query, key)

Returned(i) == tasks[i].pc = "returned" /\ tasks[i].ret # <<>>

SourcesOf(i) == tasks[i].ret[1].sources

\* The value of the redirect entry task i returned.
RedirectOf(i) == tasks[i].ret[1].entry[1][2]

\* C1: the output file is written only after every task has returned, with
\* what generate_sources returned; once a task has raised, generate_sources
\* returns nothing and the file is never written.
C1_AllOrNothing ==
    /\ outfile # <<>> =>
         /\ main_pc = "written"
         /\ \A i \in 1..N : tasks[i].pc = "returned"
         /\ generated_sources # <<>>
         /\ outfile = <<json_dump(generated_sources[1])>>
    /\ (Started /\ \E i \in 1..N : tasks[i].pc = "raised") =>
         /\ outfile = <<>>
         /\ generated_sources = <<>>
         /\ main_pc \in {"gather", "aborted"}

\* The run was aborted by one task after another had returned descriptors.
C1_Witness ==
    /\ main_pc = "aborted"
    /\ outfile = <<>>
    /\ \E i, j \in 1..N : Returned(i) /\ tasks[j].pc = "raised"

BothRevAndTag(p) ==
    HasCommit(p) /\ SelectorsOf(p, "rev") # <<>> /\ SelectorsOf(p, "tag") # <<>>

\* C2 as stated: a git package whose source gives both a rev and a tag
\* never returns from get_git_sources.
C2_RevAndTagIsFatal ==
    Started => \A i \in 1..N : BothRevAndTag(PackageOf(i)) => tasks[i].pc # "returned"

\* C2 amended: a git package whose source gives the rev selector more than
\* once fails in its first step; one that gives one rev and a tag is not
\* refused: the redirect entry it returns carries the rev and no tag.
C2_RepeatedSelectorIsFatal ==
    Started => \A i \in 1..N :
        /\ tasks[i].pc \in {"ready", "raised"}
             \/ ~(HasCommit(PackageOf(i)) /\ Len(SelectorsOf(PackageOf(i), "rev")) > 1)
        /\ (Returned(i) /\ BothRevAndTag(PackageOf(i))
             /\ Len(SelectorsOf(PackageOf(i), "rev")) = 1)
             => /\ "rev" \in DOMAIN RedirectOf(i)
                /\ RedirectOf(i)["rev"] = SelectorsOf(PackageOf(i), "rev")[1]
                /\ "tag" \notin DOMAIN RedirectOf(i)

\* A package with a rev and a tag has returned, one with two revs has raised.
C2_Witness ==
    /\ Started
    /\ \E i, j \in 1..N :
         /\ BothRevAndTag(PackageOf(i)) /\ Returned(i)
         /\ HasCommit(PackageOf(j))
         /\ Len(SelectorsOf(PackageOf(j), "rev")) = 2 /\ tasks[j].pc = "raised"

\* The git processes of one kind run for a repository URL.
RunsFor(url, op) ==
    {k \in 1..Len(git_runs) : git_runs[k].url = url /\ git_runs[k].op = op}

\* The git processes of one kind that succeeded in a cache directory.
DoneIn(dir, op) ==
    {k \in 1..Len(git_runs) :
        git_runs[k].dir = dir /\ git_runs[k].op = op /\ git_runs[k].ok}

\* The git packages of the lockfile whose checkout is the directory.
UsersOf(dir) ==
    {i \in 1..N : HasCommit(PackageOf(i)) /\ repo_dir(RepoUrlOf(PackageOf(i))) = dir}

\* The packages using the directory name commits of COMMIT_LEN characters
\* or more that agree on their first COMMIT_LEN characters.
CommitsAgree(dir) ==
    \A i, j \in UsersOf(dir) :
        /\ Len(CommitOf(PackageOf(i))) >= COMMIT_LEN
        /\ Prefix(CommitOf(PackageOf(i)), COMMIT_LEN)
             = Prefix(CommitOf(PackageOf(j)), COMMIT_LEN)

\* C3 as stated: for one repository URL the run performs at most one
\* 'git clone' and at most one 'git fetch' + 'git checkout'.
C3_OneCloneOneSwitch ==
    \A url \in {git_runs[k].url : k \in 1..Len(git_runs)} :
        /\ Cardinality(RunsFor(url, "clone")) <= 1
        /\ Cardinality(RunsFor(url, "fetch")) <= 1

\* C3 amended: in one cache directory at most one 'git clone' succeeds,
\* and at most one fetch + checkout succeeds when the packages using the
\* directory name commits that agree on COMMIT_LEN characters.
C3_CacheReuse ==
    \A dir \in {git_runs[k].dir : k \in 1..Len(git_runs)} :
        /\ Cardinality(DoneIn(dir, "clone")) <= 1
        /\ Cardinality(DoneIn(dir, "checkout")) <= 1 \/ ~CommitsAgree(dir)

\* Two packages of one repository at one commit have both been resolved
\* with one clone and one switch.
C3_Witness ==
    /\ Started
    /\ \E i, j \in 1..N :
         /\ i # j /\ Returned(i) /\ Returned(j)
         /\ HasCommit(PackageOf(i)) /\ HasCommit(PackageOf(j))
         /\ RepoUrlOf(PackageOf(i)) = RepoUrlOf(PackageOf(j))
         /\ CommitsAgree(repo_dir(RepoUrlOf(PackageOf(i))))
         /\ Cardinality(DoneIn(repo_dir(RepoUrlOf(PackageOf(i))), "clone")) = 1
         /\ Cardinality(DoneIn(repo_dir(RepoUrlOf(PackageOf(i))), "checkout")) = 1

IsExtractStep(d) ==
    /\ d["type"] = "shell"
    /\ "dest" \in DOMAIN d
    /\ d["dest"] = <<"cargo", "/", "vendor">>
    /\ d["commands"] = << <<"for c in *.crate; do tar -xf $c; done">> >>

IsConfigFile(d) ==
    /\ d["type"] = "file"
    /\ d["dest"] = <<"cargo">>
    /\ d["dest-filename"] = <<"config">>

\* The descriptors the tasks from i on returned, in the order of the tasks.
RECURSIVE ReturnedFrom(_)
ReturnedFrom(i) ==
    IF i > N THEN <<>>
    ELSE (IF tasks[i].ret # <<>> THEN SourcesOf(i) ELSE <<>>) \o ReturnedFrom(i + 1)

TrailingTwo(m) ==
    /\ Len(m) >= 2
    /\ IsExtractStep(m[Len(m) - 1])
    /\ IsConfigFile(m[Len(m)])
    /\ m[Len(m)]["url"] = <<"data:">> \o urlquote(toml_dumps(cargo_vendored_sources))
    /\ \A k \in 1..(Len(m) - 2) : ~IsExtractStep(m[k]) /\ ~IsConfigFile(m[k])
    /\ SubSeq(m, 1, Len(m) - 2) = ReturnedFrom(1)

\* C6: what generate_sources returns ends with the extraction step and the
\* configuration file, in this order, after the descriptors of the packages.
C6_TrailingEntries ==
    generated_sources # <<>> => TrailingTwo(generated_sources[1])

\* generate_sources has returned for two packages, one of them skipped and
\* one with a shell step of its own.
C6_Witness ==
    /\ generated_sources # <<>>
    /\ N = 2
    /\ \E i, j \in 1..N :
         /\ tasks[i].ret = <<>>
         /\ Returned(j) /\ Len(SourcesOf(j)) = 3 /\ SourcesOf(j)[2]["type"] = "shell"

IsRegistry(p) == "source" \in DOMAIN p /\ ~StartsWith(p.source, <<"git+">>)

MetadataKey(p) ==
    <<"checksum ", p.name, " ", p.version, " (">> \o p.source \o <<")">>

InMetadata(p) ==
    "metadata" \in DOMAIN cargo_lock /\ MetadataKey(p) \in DOMAIN cargo_lock.metadata

\* The checksum the claim expects for a registry package.
ExpectedChecksum(p) ==
    IF InMetadata(p) THEN cargo_lock.metadata[MetadataKey(p)] ELSE p.checksum

\* C7: a registry package takes its checksum from the metadata table when
\* the key is there, from its inline field otherwise, in both descriptors,
\* and nothing is downloaded for it.
C7_ChecksumPrecedence ==
    Started => \A i \in 1..N :
        IsRegistry(PackageOf(i)) =>
            /\ \A k \in 1..Len(downloads) : downloads[k][1] # i
            /\ Returned(i) =>
                 /\ Len(SourcesOf(i)) = 2
                 /\ SourcesOf(i)[1]["sha256"] = ExpectedChecksum(PackageOf(i))
                 /\ SourcesOf(i)[2]["url"] =
                      <<"data:">>
                      \o urlquote(json_dumps_marker(ExpectedChecksum(PackageOf(i))))

\* A registry package with an inline checksum and another checksum in the
\* metadata table has been resolved.
C7_Witness ==
    /\ Started
    /\ \E i \in 1..N :
         /\ IsRegistry(PackageOf(i)) /\ Returned(i)
         /\ InMetadata(PackageOf(i))
         /\ "checksum" \in DOMAIN PackageOf(i)
         /\ PackageOf(i).checksum # cargo_lock.metadata[MetadataKey(PackageOf(i))]

\* The packages the claim says are skipped.
SoftSkipped(p) ==
    \/ "source" \notin DOMAIN p
    \/ IsRegistry(p) /\ ~InMetadata(p) /\ "checksum" \notin DOMAIN p

\* The descriptors of the packages from i on that are not skipped.
RECURSIVE KeptFrom(_)
KeptFrom(i) ==
    IF i > N THEN <<>>
    ELSE (IF SoftSkipped(PackageOf(i)) THEN <<>> ELSE SourcesOf(i)) \o KeptFrom(i + 1)

KeptKeys == {tasks[i].ret[1].entry[1][1] : i \in {j \in 1..N : ~SoftSkipped(PackageOf(j))}}

\* C8: a package without source, or a registry package without checksum,
\* returns None and never raises; what generate_sources returns is the
\* descriptors of the other packages and the two trailing entries, and the
\* redirect mapping has the keys of the other packages only.
C8_SoftSkip ==
    Started =>
        /\ \A i \in 1..N : SoftSkipped(PackageOf(i)) =>
             /\ tasks[i].pc \in {"ready", "returned"}
             /\ tasks[i].ret = <<>>
        /\ generated_sources # <<>> =>
             /\ Len(generated_sources[1]) = Len(KeptFrom(1)) + 2
             /\ SubSeq(generated_sources[1], 1, Len(KeptFrom(1))) = KeptFrom(1)
             /\ DictKeys(cargo_vendored_sources) = {VENDORED_SOURCES} \cup KeptKeys

\* generate_sources has returned for a lockfile with a skipped package and
\* a package that is not skipped.
C8_Witness ==
    /\ generated_sources # <<>>
    /\ \E i, j \in 1..N :
         /\ IsRegistry(PackageOf(i)) /\ SoftSkipped(PackageOf(i))
         /\ Returned(j)

\* The trees of the remotes, the names of the packages at their roots and
\* the names of the packages in their workspace members.
Trees == UNION {{Remotes[r].tree[c] : c \in DOMAIN Remotes[r].tree} : r \in DOMAIN Remotes}

RootNames == {t.package[1] : t \in {x \in Trees : x.package # <<>>}}

MemberNames ==
    UNION {UNION {{t.glob[m][k][2] : k \in 1..Len(t.glob[m])} : m \in DOMAIN t.glob}
           : t \in Trees}

AtRoot(name) == name \in RootNames /\ name \notin MemberNames

Below(name) == name \in MemberNames /\ name \notin RootNames

IsMarker(d) == d["type"] = "file" /\ d["dest-filename"] = <<".cargo-checksum.json">>

\* The descriptors of task i stand together, in their order, in m.
BlockIn(i, m) ==
    \E k \in 0..(Len(m) - Len(SourcesOf(i))) :
        SubSeq(m, k + 1, k + Len(SourcesOf(i))) = SourcesOf(i)

\* C9: a git package below the root of its repository returns its fetch
\* descriptor, then the relocation step, then the marker; one at the root
\* returns the fetch descriptor and the marker; the descriptors keep this
\* order in what generate_sources returns.
C9_RelocationOrder ==
    Started => \A i \in 1..N :
        (IsGit(PackageOf(i)) /\ Returned(i)) =>
            /\ SourcesOf(i)[1]["type"] = (IF git_tarballs THEN "archive" ELSE "git")
            /\ IsMarker(SourcesOf(i)[Len(SourcesOf(i))])
            /\ Below(PackageOf(i).name) =>
                 /\ Len(SourcesOf(i)) = 3
                 /\ SourcesOf(i)[2]["type"] = "shell"
                 /\ "dest" \notin DOMAIN SourcesOf(i)[2]
            /\ AtRoot(PackageOf(i).name) => Len(SourcesOf(i)) = 2
            /\ generated_sources # <<>> => BlockIn(i, generated_sources[1])

\* generate_sources has returned for two git packages, the second below the
\* root of its repository.
C9_Witness ==
    /\ generated_sources # <<>>
    /\ N = 2
    /\ IsGit(PackageOf(1)) /\ Returned(1)
    /\ IsGit(PackageOf(2)) /\ Returned(2) /\ Below(PackageOf(2).name)
    /\ Len(SourcesOf(2)) = 3

\* Task i is the last task that returned a redirect entry for the key.
LastFor(key, i) ==
    /\ Returned(i) /\ tasks[i].ret[1].entry[1][1] = key
    /\ \A j \in (i + 1)..N : ~(Returned(j) /\ tasks[j].ret[1].entry[1][1] = key)

\* C10: while the tasks run, the list and the dict of generate_sources are
\* as they were set; what generate_sources returns is the descriptors of
\* the tasks in the order of the lockfile, whatever the order the tasks
\* ended in, and the redirect entry of a key is the one of the last package
\* of the lockfile that has the key.
C10_LockfileOrder ==
    /\ main_pc \in {"gather", "aborted"} =>
         /\ sources = <<>>
         /\ cargo_vendored_sources =
              << <<VENDORED_SOURCES, ("directory" :> <<"cargo", "/", "vendor">>)>> >>
    /\ generated_sources # <<>> =>
         /\ \A i \in 1..N : tasks[i].pc = "returned"
         /\ SubSeq(generated_sources[1], 1, Len(generated_sources[1]) - 2)
              = ReturnedFrom(1)
         /\ \A k \in 1..Len(cargo_vendored_sources) :
              cargo_vendored_sources[k][1] # VENDORED_SOURCES =>
                  \E i \in 1..N :
                      /\ LastFor(cargo_vendored_sources[k][1], i)
                      /\ cargo_vendored_sources[k][2] = RedirectOf(i)

\* In tarball mode the second task ended before the first, and the two
\* returned different redirect entries for one repository.
C10_Witness ==
    /\ generated_sources # <<>>
    /\ git_tarballs
    /\ N = 2
    /\ Returned(1) /\ Returned(2)
    /\ tasks[1].ret[1].entry[1][1] = tasks[2].ret[1].entry[1][1]
    /\ RedirectOf(1) # RedirectOf(2)
    /\ Len(git_runs) >= 3
    /\ git_runs[2].commit = CommitOf(PackageOf(2))
    /\ CommitOf(PackageOf(1)) # CommitOf(PackageOf(2))

\* ------------------------------------- canonical_url as a state machine

MaxPathLen == 4

PathToks == {"/", "o", "O", ".git"}

RECURSIVE PathsOfLen(_)
PathsOfLen(n) ==
    IF n = 0 THEN {<<>>}
    ELSE IF n = 1 THEN {<<"/">>}
    ELSE {Append(p, t) : p \in PathsOfLen(n - 1), t \in PathToks}

Paths == UNION {PathsOfLen(n) : n \in 0..MaxPathLen}

GitPrefixes == {<<>>, <<"git+">>, <<"git+", "git+">>}
Schemes == {<<"https">>, <<"http">>}
Hosts == {GITHUB, <<"GitHub", ".", "com">>, <<"gitlab", ".", "com">>}
Suffixes == {<<>>, <<"?", "rev", "=", "r1", "#", "a">>}

SourceParts == [prefix : GitPrefixes, scheme : Schemes, host : Hosts,
                path : Paths, suffix : Suffixes]

SourceString(s) == s.prefix \o s.scheme \o <<"://">> \o s.host \o s.path \o s.suffix

\* The source strings that differ from s only in the capitalisation of host
\* or path letters and in trailing slashes.
Variants(s) ==
    {[s EXCEPT !.host = h, !.path = p] :
        h \in {x \in Hosts : Lower(x) = Lower(s.host)},
        p \in {x \in Paths : Lower(RstripSlash(x)) = Lower(RstripSlash(s.path))}}

CanonInit ==
    /\ cargo_lock = [package |-> <<>>]
    /\ git_tarballs = FALSE
    /\ main_pc = "start"
    /\ tasks = NoTasks
    /\ cache = <<>>
    /\ git_runs = <<>>
    /\ downloads = <<>>
    /\ warnings = <<>>
    /\ sources = <<>>
    /\ cargo_vendored_sources = <<>>
    /\ generated_sources = <<>>
    /\ outfile = <<>>
    /\ u_in \in SourceParts
    /\ v_in = <<>>
    /\ canon_u = <<>>
    /\ canon_v = <<>>
    /\ canon_cu = <<>>

Canonicalise ==
    /\ canon_u = <<>>
    /\ canon_u' = <<canonical_url(SourceString(u_in))>>
    /\ UNCHANGED <<u_in, v_in, canon_v, canon_cu, run_vars>>

CanonicaliseAgain ==
    /\ canon_u # <<>>
    /\ canon_cu = <<>>
    /\ canon_cu' = <<canonical_url(geturl(canon_u[1]))>>
    /\ UNCHANGED <<u_in, v_in, canon_u, canon_v, run_vars>>

CanonicaliseVariant ==
    /\ v_in = <<>>
    /\ \E v \in Variants(u_in) :
          /\ v_in' = <<v>>
          /\ canon_v' = <<canonical_url(SourceString(v))>>
    /\ UNCHANGED <<u_in, canon_u, canon_cu, run_vars>>

CanonNext == Canonicalise \/ CanonicaliseAgain \/ CanonicaliseVariant

SpecCanon == CanonInit /\ [][CanonNext]_vars

\* --------------------------------------------- claims on canonical_url

\* github.com is the provider canonical_url knows to be case-insensitive.
OnKnownProvider(s) == Lower(s.host) = GITHUB

\* C4: on github.com, two source strings that differ only in the
\* capitalisation of host or path letters and in a trailing slash
\* canonicalise to equal values.
C4_CaseAndSlashInsensitive ==
    (canon_u # <<>> /\ canon_v # <<>> /\ OnKnownProvider(u_in)) => canon_u = canon_v

SinglyDecoratedPath(path) ==
    /\ ~EndsWith(strip_git_suffix(RstripSlash(path)), <<"/">>)
    /\ ~EndsWith(strip_git_suffix(RstripSlash(path)), <<".git">>)

OnceReplaced(url1) == Replace(url1, GIT_HTTPS, <<"https", "://">>) = url1

SinglyDecorated(url) ==
    /\ OnceReplaced(Replace(url, GIT_HTTPS, <<"https", "://">>))
    /\ SinglyDecoratedPath(urlparse(Replace(url, GIT_HTTPS, <<"https", "://">>)).path)

====
